---- MODULE Spec2Model ----
(***************************************************************************)
(* Model of the device context (python/debugger/context.py) and of the     *)
(* BModel disassembler command line (python/tools/bmodel_dis.py).           *)
(*                                                                         *)
(* Three specifications:                                                   *)
(*   Spec      operations on Context objects of one process                *)
(*   SpecCli   one run of bmodel_dis.__main (decode, export, compare)      *)
(*   SpecDiff  the unified_diff generator on two operation sequences       *)
(***************************************************************************)
EXTENDS Integers, Sequences, FiniteSets

\* ------------------------------------------------------------------ helpers

Min(x, y) == IF x <= y THEN x ELSE y
Max(x, y) == IF x >= y THEN x ELSE y

\* Python indexing: s[i] with i counted from 0.
At(s, i) == s[i + 1]

\* Python slice s[i:j] for 0 <= i, j (an empty list when i >= j).
Slice(s, i, j) ==
    LET lo == Min(i, Len(s))
        hi == Min(j, Len(s))
    IN  IF lo >= hi THEN << >> ELSE [k \in 1..(hi - lo) |-> s[lo + k]]

RECURSIVE Concat(_)
Concat(ss) == IF ss = << >> THEN << >> ELSE Head(ss) \o Concat(Tail(ss))

\* All sequences over S of length 0..n.
SeqUpTo(S, n) == UNION {[1..k -> S] : k \in 0..n}

\* ------------------------------------------------- difflib.SequenceMatcher
\* bmodel_dis.unified_diff builds difflib.SequenceMatcher(None, a, b) and
\* iterates get_grouped_opcodes(n).  isjunk is None, autojunk is on.

\* SequenceMatcher.__chain_b: with autojunk, in a b of 200 or more elements
\* the elements that occur more than len(b) // 100 + 1 times are "popular"
\* and are left out of the index b2j.
Popular(b) ==
    IF Len(b) >= 200
    THEN {x \in {b[k] : k \in 1..Len(b)} :
             Cardinality({k \in 1..Len(b) : b[k] = x}) > (Len(b) \div 100) + 1}
    ELSE {}

\* j2len[j] after row i of find_longest_match: the length of the common run
\* of indexed elements that ends at a[i], b[j] and stays inside [alo, blo).
RECURSIVE RunLen(_, _, _, _, _, _)
RunLen(a, b, i, j, alo, blo) ==
    IF i < alo \/ j < blo THEN 0
    ELSE IF At(a, i) # At(b, j) \/ At(b, j) \in Popular(b) THEN 0
    ELSE 1 + RunLen(a, b, i - 1, j - 1, alo, blo)

\* Widening of find_longest_match's best block over equal elements on both
\* sides (popular elements included; there are no junk elements).
RECURSIVE ExtendBack(_, _, _, _, _, _)
ExtendBack(a, b, i, j, alo, blo) ==
    IF i > alo /\ j > blo /\ At(a, i - 1) = At(b, j - 1)
    THEN 1 + ExtendBack(a, b, i - 1, j - 1, alo, blo)
    ELSE 0

RECURSIVE ExtendFwd(_, _, _, _, _, _)
ExtendFwd(a, b, i, j, ahi, bhi) ==
    IF i < ahi /\ j < bhi /\ At(a, i) = At(b, j)
    THEN 1 + ExtendFwd(a, b, i + 1, j + 1, ahi, bhi)
    ELSE 0

\* SequenceMatcher.find_longest_match(alo, ahi, blo, bhi): <<i, j, k>>.
\* best is replaced only by a strictly longer run, rows i ascending and
\* within a row j ascending, so the first longest run in that order wins.
\* The runs of find_longest_match's table: <<i, j, k>> for every a[i], b[j]
\* in the range that end a common run, of length k.
Runs(a, b, alo, ahi, blo, bhi) ==
    {<<p[1], p[2], RunLen(a, b, p[1], p[2], alo, blo)>> :
        p \in {q \in (alo..(ahi - 1)) \X (blo..(bhi - 1)) : At(a, q[1]) = At(b, q[2])}}

\* besti, bestj, bestsize after the loop: best is replaced only by a strictly
\* longer run, rows i ascending and within a row j ascending, so among the
\* longest runs the one met first wins.
BestRun(runs, alo, blo) ==
    IF \A r \in runs : r[3] = 0 THEN <<alo, blo, 0>>
    ELSE LET r == CHOOSE p \in runs :
                     \A q \in runs :
                        \/ q[3] < p[3]
                        \/ /\ q[3] = p[3]
                           /\ \/ p[1] < q[1]
                              \/ p[1] = q[1] /\ p[2] <= q[2]
         IN  <<r[1] - r[3] + 1, r[2] - r[3] + 1, r[3]>>

\* The widening of the best block <<i, j, k>> to both sides.
Widen(a, b, alo, ahi, blo, bhi, i, j, k) ==
    <<i - ExtendBack(a, b, i, j, alo, blo),
      j - ExtendBack(a, b, i, j, alo, blo),
      k + ExtendBack(a, b, i, j, alo, blo) + ExtendFwd(a, b, i + k, j + k, ahi, bhi)>>

WidenBest(a, b, alo, ahi, blo, bhi, best) ==
    Widen(a, b, alo, ahi, blo, bhi, best[1], best[2], best[3])

\* SequenceMatcher.find_longest_match(alo, ahi, blo, bhi): <<i, j, k>>.
find_longest_match(a, b, alo, ahi, blo, bhi) ==
    WidenBest(a, b, alo, ahi, blo, bhi,
              BestRun(Runs(a, b, alo, ahi, blo, bhi), alo, blo))

\* SequenceMatcher.get_matching_blocks, before the merge of adjacent blocks:
\* the longest match of the range, then the ranges left and right of it.
RECURSIVE MatchRange(_, _, _, _, _, _)
MatchAround(a, b, alo, ahi, blo, bhi, i, j, k) ==
    IF k = 0 THEN << >>
    ELSE (IF alo < i /\ blo < j
             THEN MatchRange(a, b, alo, i, blo, j) ELSE << >>)
         \o << <<i, j, k>> >>
         \o (IF i + k < ahi /\ j + k < bhi
             THEN MatchRange(a, b, i + k, ahi, j + k, bhi) ELSE << >>)

MatchSplit(a, b, alo, ahi, blo, bhi, m) ==
    MatchAround(a, b, alo, ahi, blo, bhi, m[1], m[2], m[3])

MatchRange(a, b, alo, ahi, blo, bhi) ==
    MatchSplit(a, b, alo, ahi, blo, bhi,
               find_longest_match(a, b, alo, ahi, blo, bhi))

\* The merge of adjacent blocks: (i1, j1, k1) is held back and grown while
\* the next block starts where it ends in both sequences.
RECURSIVE Collapse(_, _)
Collapse(blocks, cur) ==
    IF blocks = << >> THEN (IF cur[3] > 0 THEN <<cur>> ELSE << >>)
    ELSE LET nb == Head(blocks)
         IN  IF cur[1] + cur[3] = nb[1] /\ cur[2] + cur[3] = nb[2]
             THEN Collapse(Tail(blocks), <<cur[1], cur[2], cur[3] + nb[3]>>)
             ELSE (IF cur[3] > 0 THEN <<cur>> ELSE << >>)
                  \o Collapse(Tail(blocks), nb)

get_matching_blocks(a, b) ==
    Collapse(MatchRange(a, b, 0, Len(a), 0, Len(b)), <<0, 0, 0>>)
    \o << <<Len(a), Len(b), 0>> >>

\* SequenceMatcher.get_opcodes: <<tag, i1, i2, j1, j2>> per edit.
RECURSIVE Opcodes(_, _, _)
Opcodes(blocks, i, j) ==
    IF blocks = << >> THEN << >>
    ELSE LET ai   == Head(blocks)[1]
             bj   == Head(blocks)[2]
             size == Head(blocks)[3]
             tag  == IF i < ai /\ j < bj THEN "replace"
                     ELSE IF i < ai THEN "delete"
                     ELSE IF j < bj THEN "insert"
                     ELSE ""
         IN  (IF tag # "" THEN << <<tag, i, ai, j, bj>> >> ELSE << >>)
             \o (IF size > 0
                 THEN << <<"equal", ai, ai + size, bj, bj + size>> >>
                 ELSE << >>)
             \o Opcodes(Tail(blocks), ai + size, bj + size)

get_opcodes(a, b) == Opcodes(get_matching_blocks(a, b), 0, 0)

\* get_grouped_opcodes: the fix-up of a leading and of a trailing 'equal'.
FixLeading(codes, n) ==
    IF codes[1][1] = "equal"
    THEN LET c == codes[1]
         IN  [codes EXCEPT ![1] =
                 <<c[1], Max(c[2], c[3] - n), c[3], Max(c[4], c[5] - n), c[5]>>]
    ELSE codes

FixTrailing(codes, n) ==
    IF codes[Len(codes)][1] = "equal"
    THEN LET c == codes[Len(codes)]
         IN  [codes EXCEPT ![Len(codes)] =
                 <<c[1], c[2], Min(c[3], c[2] + n), c[4], Min(c[5], c[4] + n)>>]
    ELSE codes

\* get_grouped_opcodes: the loop over the codes; `group` is the open group.
RECURSIVE GroupLoop(_, _, _)
GroupLoop(codes, group, n) ==
    IF codes = << >> THEN
        IF group # << >> /\ ~(Len(group) = 1 /\ group[1][1] = "equal")
        THEN <<group>> ELSE << >>
    ELSE LET c == Head(codes)
         IN  IF c[1] = "equal" /\ c[3] - c[2] > n + n
             THEN <<Append(group,
                       <<c[1], c[2], Min(c[3], c[2] + n), c[4], Min(c[5], c[4] + n)>>)>>
                  \o GroupLoop(Tail(codes),
                       << <<c[1], Max(c[2], c[3] - n), c[3],
                            Max(c[4], c[5] - n), c[5]>> >>, n)
             ELSE GroupLoop(Tail(codes), Append(group, c), n)

NonEmptyCodes(codes) ==
    IF codes = << >> THEN << <<"equal", 0, 1, 0, 1>> >> ELSE codes

get_grouped_opcodes(a, b, n) ==
    GroupLoop(FixTrailing(FixLeading(NonEmptyCodes(get_opcodes(a, b)), n), n),
              << >>, n)

\* ------------------------------------------------------- context.py: Device

\* class Device(Enum): the values of the two members.
DeviceValues == {"BM1684X", "BM1684"}

\* Identifiers a caller may hand to Context(): the two supported ones and
\* two that are no Device value.
Identifiers == DeviceValues \cup {"bm1684x", "CV18XX"}

\* The modules Context.__init__ imports for a device.
Opdef(device)   == IF device = "BM1684X" THEN "opdef_1684x" ELSE "opdef_1684"
Opparam(device) == IF device = "BM1684X" THEN "opparam_1684x" ELSE "opparam_1684"

OpdefModules   == {Opdef(d) : d \in DeviceValues}
OpparamModules == {Opparam(d) : d \in DeviceValues}

None == [none |-> TRUE]

\* ------------------------------------------------------------------ bounds

MaxContexts == 2     \* Context objects constructed in one process
MaxDecoders == 3     \* Decoder objects constructed in one process
MaxSims     == 2     \* simulators constructed in one process

\* functools.lru_cache() with no argument keeps maxsize = 128 entries, in one
\* cache attached to the function Context.decoder wraps.  The model keeps
\* the same least-recently-used cache scaled down to LruMaxsize entries, so
\* that a full cache is reached with MaxContexts Context objects.
LruMaxsize == 1

\* ----------------------------------------------------- op_support (domain)

\* op_support.DType: the element types and their itemsize in bytes.
DTypeItemsize == [i8 |-> 1, f16 |-> 2, f32 |-> 4, i64 |-> 8]
DTypes == DOMAIN DTypeItemsize

\* op_support.get_continuous_stride(shape): row-major element strides.
RECURSIVE Product(_)
Product(s) == IF s = << >> THEN 1 ELSE Head(s) * Product(Tail(s))

get_continuous_stride(shape) ==
    [k \in 1..Len(shape) |-> Product(SubSeq(shape, k + 1, Len(shape)))]

Shapes == {<<2, 3>>, <<1, 2, 2>>}

\* Tensor descriptors of a container, as tensor2memref reads them.
Tensors ==
    [pad_h : {0, 1}, st_mode : 0..3, dtype : DTypes, shape : Shapes,
     device_addr : {0}]

\* The descriptors the process-level specification hands to tensor2memref.
SomeTensors ==
    {t \in Tensors : t.dtype \in {"i8", "i64"} /\ t.st_mode \in {0, 1}
                     /\ t.shape = <<2, 3>>}

VARIABLES
    contexts,    \* the Context objects alive: <<[device, opdef, opparam], ...>>
    decoders,    \* the Decoder objects constructed: decoders[d] = its Context
    cache,       \* lru_cache of Context.decoder: <<[key, value]>>, oldest first
    sims,        \* the simulators constructed: sims[s] = its device
    compute,     \* compute[opdef module][category]: the bound `compute`
    data,        \* data[opparam module]: the simulator behind MemRef.data
    result       \* what the last call returned or raised

ctxVars == <<contexts, decoders, cache, sims, compute, data, result>>

Unbound == [sim |-> 0, entry |-> "none"]

\* -------------------------------------------------------- Context.__init__

\* Faulty variant of ContextInit: an identifier that is no Device value falls into
\* the first branch.
ContextInit_UnknownAsFirst(device) ==
    LET d == IF device \in DeviceValues THEN device ELSE "BM1684X"
    IN  [exc |-> "none",
         value |-> [device |-> d, opdef |-> Opdef(d), opparam |-> Opparam(d)]]

\* Device(device) raises ValueError for a value of no member; the else
\* branch of the device chain cannot be reached after it.
ContextInit(device) ==
    IF device \notin DeviceValues
    THEN [exc |-> "ValueError", value |-> None]
    ELSE [exc |-> "none",
          value |-> [device |-> device, opdef |-> Opdef(device),
                     opparam |-> Opparam(device)]]

NewContext(device) ==
    /\ Len(contexts) < MaxContexts
    /\ LET r == ContextInit(device)
       IN  /\ contexts' = IF r.exc = "none" THEN Append(contexts, r.value)
                          ELSE contexts
           /\ result' = [op |-> "Context", ctx |-> Len(contexts), arg |-> device,
                         exc |-> r.exc,
                         value |-> IF r.exc = "none" THEN Len(contexts) + 1 ELSE 0]
    /\ UNCHANGED <<decoders, cache, sims, compute, data>>

\* ------------------------------------------------- Context.memmap / MemRef

Accessor(self, name) == <<contexts[self].opparam, name>>

ReadAccessor(self, name) ==
    /\ result' = [op |-> name, ctx |-> self, arg |-> None, exc |-> "none",
                  value |-> Accessor(self, name)]
    /\ UNCHANGED <<contexts, decoders, cache, sims, compute, data>>

\* --------------------------------------------------------- Context.decoder

CacheKeys(c) == {c[k].key : k \in 1..Len(c)}

CacheValue(c, key) == (CHOOSE k \in 1..Len(c) : c[k].key = key)

\* functools.lru_cache around the getter: a hit moves the entry to the most
\* recent end; a miss calls disassembler.Decoder(self), stores the result
\* and, with the cache full, drops the least recently used entry.
LruLookup(c, key, fresh) ==
    IF key \in CacheKeys(c)
    THEN LET k == CacheValue(c, key)
         IN  [hit |-> TRUE, value |-> c[k].value,
              cache |-> SubSeq(c, 1, k - 1) \o SubSeq(c, k + 1, Len(c)) \o <<c[k]>>]
    ELSE LET full == Len(c) >= LruMaxsize
             kept == IF full THEN Tail(c) ELSE c
         IN  [hit |-> FALSE, value |-> fresh,
              cache |-> Append(kept, [key |-> key, value |-> fresh])]

\* What one evaluation of self.decoder does to the process.
DecoderAccess(self) ==
    LET r == LruLookup(cache, self, Len(decoders) + 1)
    IN  /\ r.hit \/ Len(decoders) < MaxDecoders
        /\ cache' = r.cache
        /\ decoders' = IF r.hit THEN decoders ELSE Append(decoders, self)

GetDecoder(self) ==
    /\ DecoderAccess(self)
    /\ result' = [op |-> "decoder", ctx |-> self, arg |-> None, exc |-> "none",
                  value |-> LruLookup(cache, self, Len(decoders) + 1).value]
    /\ UNCHANGED <<contexts, sims, compute, data>>

\* ----------------------------------------------------- Context.BModel2MLIR

Bmodels == {"a.bmodel"}

ContextBModel2MLIR(self, bmodel) ==
    /\ DecoderAccess(self)
    /\ result' = [op |-> "BModel2MLIR", ctx |-> self, arg |-> bmodel,
                  exc |-> "none",
                  value |-> <<"module", bmodel,
                              LruLookup(cache, self, Len(decoders) + 1).value>>]
    /\ UNCHANGED <<contexts, sims, compute, data>>

\* ------------------------------------- Context.get_runner, __bind_resource

\* __bind_resource(cmodel): every class of self.opdef.tiu_cls gets a compute
\* that calls cmodel.tiu_compute, every class of self.opdef.dma_cls one that
\* calls cmodel.dma_compute, and self.MemRef (the MemRef type of
\* self.opparam) gets a data property over cmodel's memory.
\* Faulty variant of BindCompute: one set of instruction classes for all devices.
BindCompute_AllModules(cmp, opdef, sim) ==
    [m \in DOMAIN cmp |-> [tiu_cls |-> [sim |-> sim, entry |-> "tiu_compute"],
                           dma_cls |-> [sim |-> sim, entry |-> "dma_compute"]]]

BindCompute(cmp, opdef, sim) ==
    [cmp EXCEPT ![opdef] = [tiu_cls |-> [sim |-> sim, entry |-> "tiu_compute"],
                            dma_cls |-> [sim |-> sim, entry |-> "dma_compute"]]]

BindData(dat, opparam, sim) == [dat EXCEPT ![opparam] = sim]

get_runner(self) ==
    /\ Len(sims) < MaxSims
    /\ LET sim == Len(sims) + 1
       IN  /\ sims' = Append(sims, contexts[self].device)
           /\ compute' = BindCompute(compute, contexts[self].opdef, sim)
           /\ data' = BindData(data, contexts[self].opparam, sim)
           /\ result' = [op |-> "get_runner", ctx |-> self, arg |-> None,
                         exc |-> "none", value |-> sim]
    /\ UNCHANGED <<contexts, decoders, cache>>

\* --------------------------------------------------- Context.tensor2memref

\* Faulty variant of PackedAllowed: the packed modes asserted for the other device.
PackedAllowed_OtherDevice(device) == device = "BM1684X"

\* assert self.device == Device.BM1684
PackedAllowed(device) == device = "BM1684"

\* Faulty variant of PackedStride: the multiplier left out.
PackedStride_Unscaled(shape, itemsize) == get_continuous_stride(shape)

\* xn = 4 // dtype.itemsize; stride = get_continuous_stride(shape) * xn
PackedStride(shape, itemsize) ==
    [k \in DOMAIN shape |-> get_continuous_stride(shape)[k] * (4 \div itemsize)]

\* self.MemRef(tensor.device_addr, tensor.shape[0], dtype, stride, layout)
NewMemRef(opparam, tensor, stride, layout) ==
    [type |-> <<opparam, "MemRef">>, address |-> tensor.device_addr,
     shape |-> tensor.shape, dtype |-> tensor.dtype, stride |-> stride,
     layout |-> layout]

Tensor2MemrefValue(device, opparam, tensor) ==
    IF tensor.pad_h # 0 THEN [exc |-> "AssertionError", value |-> None]
    ELSE IF tensor.st_mode \in {1, 2}
    THEN IF ~PackedAllowed(device)
         THEN [exc |-> "AssertionError", value |-> None]
         ELSE [exc |-> "none",
               value |-> NewMemRef(opparam, tensor,
                            PackedStride(tensor.shape, DTypeItemsize[tensor.dtype]),
                            "continuous_XN")]
    ELSE [exc |-> "none",
          value |-> NewMemRef(opparam, tensor,
                       get_continuous_stride(tensor.shape), "None")]

tensor2memref(self, tensor) ==
    /\ LET r == Tensor2MemrefValue(contexts[self].device, contexts[self].opparam,
                                   tensor)
       IN  result' = [op |-> "tensor2memref", ctx |-> self, arg |-> tensor,
                      exc |-> r.exc, value |-> r.value]
    /\ UNCHANGED <<contexts, decoders, cache, sims, compute, data>>

\* ------------------------------------------------- bmodel_dis.unified_diff

Ops == {1, 2}        \* decoded operations, compared by value

MaxOps    == 2       \* operations per subgraph in a compared module
MaxGraphs == 2       \* subgraphs per compared module
MaxLen    == 4       \* operations per sequence handed to unified_diff alone

\* The keys of fmt_op.
FmtKeys == {"raw", "mlir", "bits"}

\* fmt_op[format](op): the text of one operation in the chosen projection.
Fmt(format, op) == <<format, op>>

\* difflib._format_range_unified(start, stop): "beginning" for one line,
\* "beginning,length" otherwise; an empty range begins one line earlier.
format_range_unified(start, stop) ==
    LET length == stop - start
    IN  IF length = 1 THEN <<start + 1>>
        ELSE IF length = 0 THEN <<start, length>>
        ELSE <<start + 1, length>>

\* Faulty variant of OpcodeLines: a 'replace' yields its removed lines only.
OpcodeLines_ReplaceWithoutAdded(code, a, b, format) ==
    LET old == Slice(a, code[2], code[3])
        new == Slice(b, code[4], code[5])
    IN  IF code[1] = "equal"
        THEN [k \in DOMAIN old |-> <<" ", Fmt(format, old[k])>>]
        ELSE IF code[1] \in {"replace", "delete"}
        THEN [k \in DOMAIN old |-> <<"-", Fmt(format, old[k])>>]
        ELSE [k \in DOMAIN new |-> <<"+", Fmt(format, new[k])>>]

\* The lines unified_diff yields for one opcode of a group.
OpcodeLines(code, a, b, format) ==
    LET tag == code[1]
        old == Slice(a, code[2], code[3])
        new == Slice(b, code[4], code[5])
    IN  IF tag = "equal"
        THEN [k \in DOMAIN old |-> <<" ", Fmt(format, old[k])>>]
        ELSE (IF tag \in {"replace", "delete"}
              THEN [k \in DOMAIN old |-> <<"-", Fmt(format, old[k])>>]
              ELSE << >>)
             \o
             (IF tag \in {"replace", "insert"}
              THEN [k \in DOMAIN new |-> <<"+", Fmt(format, new[k])>>]
              ELSE << >>)

\* The lines unified_diff yields for one group: the @@ line, the lines of
\* its opcodes and the closing empty string.
HunkLines(group, a, b, format) ==
    LET first == group[1]
        last  == group[Len(group)]
    IN  << <<"@@", format_range_unified(first[2], last[3]),
                   format_range_unified(first[4], last[5])>> >>
        \o Concat([k \in DOMAIN group |-> OpcodeLines(group[k], a, b, format)])
        \o << <<"">> >>

FileHeader(fromfile, tofile) == << <<"---", fromfile>>, <<"+++", tofile>> >>

\* list(unified_diff(a, b, fromfile, tofile, n, format)): the generator run
\* to its end.  fmt_op[format] is looked up when the generator is first
\* advanced, before the sequences are compared.
DiffLines(groups, a, b, fromfile, tofile, format) ==
    (IF groups = << >> THEN << >> ELSE FileHeader(fromfile, tofile))
    \o Concat([k \in DOMAIN groups |-> HunkLines(groups[k], a, b, format)])

unified_diff(a, b, fromfile, tofile, n, format) ==
    IF format \notin FmtKeys THEN [exc |-> "KeyError", lines |-> << >>]
    ELSE [exc |-> "none",
          lines |-> DiffLines(get_grouped_opcodes(a, b, n), a, b,
                              fromfile, tofile, format)]

\* ------------------------------------------------------ bmodel_dis.__main

Formats == {"mlir", "reg", "bits", "bin"}     \* choices of --format
ContextLines == {-1, 0, 1}                    \* values given to --N (type=int)

\* tpu_cmd.cmd of a decoded module: <<(idx, cmd), ...>>, cmd.all a sequence
\* of operations.
OpSeqs  == SeqUpTo(Ops, MaxOps)
Modules == SeqUpTo(OpSeqs, MaxGraphs)

CmdOf(module) == [k \in DOMAIN module |-> [idx |-> <<k - 1>>, all |-> module[k]]]

\* A container as BModel2Bin walks it: Net* -> Parameter* -> SubNet* ->
\* CmdGroup*, every CmdGroup with its raw tiu_cmd and dma_cmd buffers.
MaxNets    == 2
MaxParams  == 1
MaxSubNets == 2
MaxGroups  == 2

SubNetIds == {0, 1}
CmdGroups == {[tiu_cmd |-> <<g>>, dma_cmd |-> <<g + 10>>] : g \in 1..2}
SubNets   == [Id : SubNetIds, CmdGroup : SeqUpTo(CmdGroups, MaxGroups)]
\* SubNet ids are unique within one SubNet collection.
Parameters ==
    {p \in SeqUpTo(SubNets, MaxSubNets) :
        \A i, j \in DOMAIN p : i # j => p[i].Id # p[j].Id}
Nets       == SeqUpTo(Parameters, MaxParams)
Containers == SeqUpTo(Nets, MaxNets)

\* The order in which BModel2Bin's four nested loops reach the CmdGroups:
\* <<[id, group], ...>>.
SubNetWalk(subnet) ==
    [k \in DOMAIN subnet.CmdGroup |-> [id |-> subnet.Id, group |-> subnet.CmdGroup[k]]]
ParamWalk(param) == Concat([k \in DOMAIN param |-> SubNetWalk(param[k])])
NetWalk(net) == Concat([k \in DOMAIN net |-> ParamWalk(net[k])])
Walk(container) == Concat([k \in DOMAIN container |-> NetWalk(container[k])])

VARIABLES
    pc,          \* where __main is: start, parsed, export, compare, exit
    args,        \* the parsed arguments: number of paths, --format, --N
    container,   \* the container read by BModel2Bin
    walk,        \* the CmdGroups BModel2Bin has still to write
    files,       \* the files written: <<subnet id, kind>> -> bytes
    tpu_cmd_a,   \* .cmd of the module decoded from the first path
    tpu_cmd_b,   \* .cmd of the module decoded from the second path
    pair,        \* subgraph pairs taken from the zip so far
    is_same,
    stdout,      \* what has been printed
    exit_code    \* -1 while running

cliVars == <<pc, args, container, walk, files, tpu_cmd_a, tpu_cmd_b, pair,
             is_same, stdout, exit_code>>

NoFiles == [f \in {} |-> << >>]

InitCli ==
    /\ pc = "start"
    /\ args = [bmodels |-> 0, format |-> "mlir", N |-> 3]
    /\ container = << >>
    /\ walk = << >>
    /\ files = NoFiles
    /\ tpu_cmd_a = << >>
    /\ tpu_cmd_b = << >>
    /\ pair = 0
    /\ is_same = TRUE
    /\ stdout = << >>
    /\ exit_code = -1

\* parser.parse_args(): one to three paths, a --format choice, an int --N.
ParseArgs ==
    /\ pc = "start"
    /\ \E nb \in 1..3, format \in Formats, N \in ContextLines :
          args' = [bmodels |-> nb, format |-> format, N |-> N]
    /\ pc' = "parsed"
    /\ UNCHANGED <<container, walk, files, tpu_cmd_a, tpu_cmd_b, pair, is_same,
                   stdout, exit_code>>

Exit(code) == pc' = "exit" /\ exit_code' = code

\* One path, --format mlir: print the module, exit(0).
SingleMlir ==
    /\ pc = "parsed" /\ args.bmodels = 1 /\ args.format = "mlir"
    /\ stdout' = Append(stdout, <<"module">>)
    /\ Exit(0)
    /\ UNCHANGED <<args, container, walk, files, tpu_cmd_a, tpu_cmd_b, pair, is_same>>

\* One path, --format reg: print the register dump as JSON, exit(0).
SingleReg ==
    /\ pc = "parsed" /\ args.bmodels = 1 /\ args.format = "reg"
    /\ stdout' = Append(stdout, <<"json">>)
    /\ Exit(0)
    /\ UNCHANGED <<args, container, walk, files, tpu_cmd_a, tpu_cmd_b, pair, is_same>>

\* One path, --format bits: NotImplementedError ends the process.
SingleBits ==
    /\ pc = "parsed" /\ args.bmodels = 1 /\ args.format = "bits"
    /\ Exit(1)
    /\ UNCHANGED <<args, container, walk, files, tpu_cmd_a, tpu_cmd_b, pair,
                   is_same, stdout>>

\* One path, --format bin: BModel2Bin reads the container.
BModel2BinRead ==
    /\ pc = "parsed" /\ args.bmodels = 1 /\ args.format = "bin"
    /\ \E c \in Containers : container' = c /\ walk' = Walk(c)
    /\ pc' = "export"
    /\ UNCHANGED <<args, files, tpu_cmd_a, tpu_cmd_b, pair, is_same, stdout,
                   exit_code>>

\* open(name, "wb") + write: the file holds exactly the bytes written last.
WriteFile(fs, name, bytes) ==
    [f \in DOMAIN fs \cup {name} |-> IF f = name THEN bytes ELSE fs[f]]

\* BModel2Bin, one CmdGroup: <path>.<id>.tiu.bin, then <path>.<id>.dma.bin.
BModel2BinWrite ==
    /\ pc = "export" /\ walk # << >>
    /\ LET g == Head(walk)
       IN  files' = WriteFile(WriteFile(files, <<g.id, "tiu">>, g.group.tiu_cmd),
                              <<g.id, "dma">>, g.group.dma_cmd)
    /\ walk' = Tail(walk)
    /\ UNCHANGED <<pc, args, container, tpu_cmd_a, tpu_cmd_b, pair, is_same,
                   stdout, exit_code>>

\* BModel2Bin returns, exit(0).
BModel2BinDone ==
    /\ pc = "export" /\ walk = << >>
    /\ Exit(0)
    /\ UNCHANGED <<args, container, walk, files, tpu_cmd_a, tpu_cmd_b, pair,
                   is_same, stdout>>

\* Two paths: both containers are decoded to modules.
TwoFileDecode ==
    /\ pc = "parsed" /\ args.bmodels = 2
    /\ \E ma, mb \in Modules : tpu_cmd_a' = CmdOf(ma) /\ tpu_cmd_b' = CmdOf(mb)
    /\ is_same' = TRUE
    /\ pc' = "compare"
    /\ UNCHANGED <<args, container, walk, files, pair, stdout, exit_code>>

\* The diff of pair k of the zip, as the body of the loop builds it.
PairDiff(k) ==
    unified_diff(tpu_cmd_a[k].all, tpu_cmd_b[k].all, "a.bmodel", "b.bmodel",
                 args.N, args.format)

\* Faulty variant of SameAfter: a non-empty diff leaves is_same as it is.
SameAfter_Kept(same, lines) == same

\* if fmt_cmd != []: is_same = False
SameAfter(same, lines) == IF lines # << >> THEN FALSE ELSE same

\* One turn of the loop over zip(tpu_cmd_a.cmd, tpu_cmd_b.cmd).  A KeyError
\* raised by unified_diff is not caught: the process ends with status 1.
ComparePair ==
    /\ pc = "compare" /\ pair < Min(Len(tpu_cmd_a), Len(tpu_cmd_b))
    /\ \E d \in {PairDiff(pair + 1)} :
           IF d.exc # "none"
           THEN /\ Exit(1)
                /\ stdout' = Append(stdout, <<"Traceback", d.exc>>)
                /\ UNCHANGED <<pair, is_same>>
           ELSE /\ pair' = pair + 1
                /\ is_same' = SameAfter(is_same, d.lines)
                /\ stdout' = IF d.lines # << >>
                             THEN Append(stdout,
                                    <<"func.func", tpu_cmd_a[pair + 1].idx,
                                      SubSeq(d.lines, 1, Len(d.lines) - 1)>>)
                             ELSE stdout
                /\ UNCHANGED <<pc, exit_code>>
    /\ UNCHANGED <<args, container, walk, files, tpu_cmd_a, tpu_cmd_b>>

\* After the loop: the "are the same!" message and exit(0), or exit(1).
CompareDone ==
    /\ pc = "compare" /\ pair = Min(Len(tpu_cmd_a), Len(tpu_cmd_b))
    /\ IF is_same
       THEN stdout' = Append(stdout, <<"same">>) /\ Exit(0)
       ELSE UNCHANGED stdout /\ Exit(1)
    /\ UNCHANGED <<args, container, walk, files, tpu_cmd_a, tpu_cmd_b, pair, is_same>>

\* Three paths: neither branch is taken, parser.error exits with status 2.
TooManyBModels ==
    /\ pc = "parsed" /\ args.bmodels = 3
    /\ Exit(2)
    /\ UNCHANGED <<args, container, walk, files, tpu_cmd_a, tpu_cmd_b, pair,
                   is_same, stdout>>

\* --------------------------------------- unified_diff as a generator, alone

DiffFormats == FmtKeys \cup {"reg"}
DiffN == {-1, 0, 1, 2}

VARIABLES
    gen,         \* the generator: its arguments, its groups left, its state
    yielded      \* the lines it has yielded

diffVars == <<gen, yielded>>

InitDiff ==
    /\ gen = [state |-> "none", a |-> << >>, b |-> << >>, n |-> 3,
              format |-> "mlir", groups |-> << >>, started |-> FALSE]
    /\ yielded = << >>

\* unified_diff(a, b, "a", "b", n, format) is called: nothing runs yet.
DiffCall ==
    /\ gen.state = "none"
    /\ \E a, b \in SeqUpTo(Ops, MaxLen), n \in DiffN, format \in DiffFormats :
          gen' = [state |-> "created", a |-> a, b |-> b, n |-> n,
                  format |-> format, groups |-> << >>, started |-> FALSE]
    /\ UNCHANGED yielded

\* The first next(): fmt_op[format] raises KeyError for an unknown format;
\* otherwise the matcher computes the groups.
DiffFirstNext ==
    /\ gen.state = "created"
    /\ gen' = IF gen.format \notin FmtKeys
              THEN [gen EXCEPT !.state = "KeyError"]
              ELSE [gen EXCEPT !.state = "running",
                               !.groups = get_grouped_opcodes(gen.a, gen.b, gen.n)]
    /\ UNCHANGED yielded

\* One turn of the loop over the groups: the file header before the first
\* group, then the group's lines.
DiffGroup ==
    /\ gen.state = "running" /\ gen.groups # << >>
    /\ yielded' = yielded
                  \o (IF gen.started THEN << >> ELSE FileHeader("a", "b"))
                  \o HunkLines(Head(gen.groups), gen.a, gen.b, gen.format)
    /\ gen' = [gen EXCEPT !.groups = Tail(gen.groups), !.started = TRUE]

\* The groups are exhausted: StopIteration.
DiffStop ==
    /\ gen.state = "running" /\ gen.groups = << >>
    /\ gen' = [gen EXCEPT !.state = "done"]
    /\ UNCHANGED yielded

\* ---------------------------------------------------------- specifications

InitCtx ==
    /\ contexts = << >>
    /\ decoders = << >>
    /\ cache = << >>
    /\ sims = << >>
    /\ compute = [m \in OpdefModules |-> [tiu_cls |-> Unbound, dma_cls |-> Unbound]]
    /\ data = [m \in OpparamModules |-> 0]
    /\ result = [op |-> "start", ctx |-> 0, arg |-> None, exc |-> "none",
                 value |-> None]

vars == <<ctxVars, cliVars, diffVars>>

Init == InitCtx /\ InitCli /\ InitDiff

\* Operations on the Context objects of one process, in any order.
NextCtx ==
    \/ \E device \in Identifiers : NewContext(device)
    \/ \E self \in 1..Len(contexts), name \in {"memmap", "MemRef"} :
          ReadAccessor(self, name)
    \/ \E self \in 1..Len(contexts) : GetDecoder(self)
    \/ \E self \in 1..Len(contexts), bmodel \in Bmodels :
          ContextBModel2MLIR(self, bmodel)
    \/ \E self \in 1..Len(contexts) : get_runner(self)
    \/ \E self \in 1..Len(contexts), tensor \in SomeTensors :
          tensor2memref(self, tensor)

Next == NextCtx /\ UNCHANGED <<cliVars, diffVars>>

Spec == Init /\ [][Next]_vars

\* tensor2memref on every descriptor of Tensors, on Contexts of any device.
NextTensor ==
    /\ \/ \E device \in Identifiers : NewContext(device)
       \/ \E self \in 1..Len(contexts), tensor \in Tensors :
             tensor2memref(self, tensor)
    /\ UNCHANGED <<cliVars, diffVars>>

SpecTensor == Init /\ [][NextTensor]_vars

\* One run of bmodel_dis.__main.
NextCli ==
    /\ \/ ParseArgs
       \/ SingleMlir
       \/ SingleReg
       \/ SingleBits
       \/ BModel2BinRead
       \/ BModel2BinWrite
       \/ BModel2BinDone
       \/ TwoFileDecode
       \/ ComparePair
       \/ CompareDone
       \/ TooManyBModels
    /\ UNCHANGED <<ctxVars, diffVars>>

SpecCli == Init /\ [][NextCli]_vars

\* One unified_diff generator, advanced to its end.
NextDiff ==
    /\ \/ DiffCall
       \/ DiffFirstNext
       \/ DiffGroup
       \/ DiffStop
    /\ UNCHANGED <<ctxVars, cliVars>>

SpecDiff == Init /\ [][NextDiff]_vars

\* ------------------------------------------------------------------ claims

\* The Decoders constructed for Context c.
DecodersOf(c) == {d \in 1..Len(decoders) : decoders[d] = c}

\* C1: for every Context the Decoder is constructed exactly once: every
\* access of c.decoder returns the same object, whatever happens on other
\* Contexts in between.
C1_DecoderConstructedOnce ==
    /\ \A c \in 1..Len(contexts) : Cardinality(DecodersOf(c)) <= 1
    /\ result.op \in {"decoder"} =>
          \A d \in DecodersOf(result.ctx) : d = result.value

\* C7: Context(device) succeeds exactly for the Device values and appends
\* nothing when it fails; a Context holds the modules of its device, memmap
\* and MemRef come from its operand-layout module, and no operation changes
\* the device, opdef or opparam of a Context that exists.
C7_Registry ==
    /\ \A c \in 1..Len(contexts) :
          /\ contexts[c].device \in DeviceValues
          /\ contexts[c].opdef = Opdef(contexts[c].device)
          /\ contexts[c].opparam = Opparam(contexts[c].device)
    /\ result.op = "Context" =>
          /\ result.exc = "none" <=> result.arg \in DeviceValues
          /\ result.exc = "none" =>
                /\ Len(contexts) = result.ctx + 1
                /\ result.value = Len(contexts)
                /\ contexts[Len(contexts)].device = result.arg
          /\ result.exc # "none" =>
                /\ result.exc = "ValueError"
                /\ Len(contexts) = result.ctx
                /\ result.value = 0
    /\ result.op \in {"memmap", "MemRef"} =>
          result.value = <<Opparam(contexts[result.ctx].device), result.op>>

C7_Stable ==
    /\ Len(contexts') >= Len(contexts)
    /\ \A c \in 1..Len(contexts) : contexts'[c] = contexts[c]

C7_ContextConstruction == [](C7_Registry) /\ [][C7_Stable]_vars

\* C7 witness: a construction has just failed in a process that holds a
\* Context on which a decoder and a runner were made.
C7_Witness ==
    /\ result.op = "Context" /\ result.exc = "ValueError"
    /\ Len(contexts) >= 1 /\ Len(decoders) >= 1 /\ Len(sims) >= 1

\* The simulators constructed for device d.
SimsOf(d) == {s \in 1..Len(sims) : sims[s] = d}
Latest(S) == CHOOSE s \in S : \A t \in S : t <= s

\* C8 as stated: once a runner was made for one device and later one for a
\* different device, the first device's classes and MemRef no longer route
\* to the first simulator; without get_runner everything is unbound.
C8_OtherDeviceOverwrites ==
    /\ \A s1, s2 \in 1..Len(sims) :
          s1 < s2 /\ sims[s1] # sims[s2] =>
             /\ compute[Opdef(sims[s1])].tiu_cls.sim # s1
             /\ compute[Opdef(sims[s1])].dma_cls.sim # s1
             /\ data[Opparam(sims[s1])] # s1
    /\ sims = << >> =>
          /\ \A m \in OpdefModules : compute[m] = [tiu_cls |-> Unbound, dma_cls |-> Unbound]
          /\ \A m \in OpparamModules : data[m] = 0

\* C8 amended: the binding belongs to the device's modules, not to a Context:
\* a device's instruction classes and MemRef route to the simulator made
\* last for that same device (an earlier one is overwritten), a runner for
\* the other device leaves them alone, and without a runner for the device
\* they are unbound.
C8_BoundToLatestOfDevice ==
    \A d \in DeviceValues :
       IF SimsOf(d) = {}
       THEN /\ compute[Opdef(d)] = [tiu_cls |-> Unbound, dma_cls |-> Unbound]
            /\ data[Opparam(d)] = 0
       ELSE /\ compute[Opdef(d)].tiu_cls = [sim |-> Latest(SimsOf(d)), entry |-> "tiu_compute"]
            /\ compute[Opdef(d)].dma_cls = [sim |-> Latest(SimsOf(d)), entry |-> "dma_compute"]
            /\ data[Opparam(d)] = Latest(SimsOf(d))

\* C8 witness: a runner for one device, then a runner for the other one.
C8_Witness ==
    /\ Len(sims) = 2 /\ sims[1] # sims[2]
    /\ result.op = "get_runner" /\ result.value = 2

\* C5: tensor2memref returns a MemRef exactly when pad_h is 0 and the storage
\* mode is not 1 or 2 or the device is BM1684; otherwise it fails and no
\* MemRef is made.
C5_Tensor2MemrefSucceedsExactlyWhen ==
    result.op = "tensor2memref" =>
       /\ result.exc = "none" <=>
             /\ result.arg.pad_h = 0
             /\ \/ result.arg.st_mode \notin {1, 2}
                \/ contexts[result.ctx].device = "BM1684"
       /\ result.exc = "none" =>
             /\ result.value # None
             /\ result.value.type = <<contexts[result.ctx].opparam, "MemRef">>
       /\ result.exc # "none" =>
             /\ result.exc = "AssertionError"
             /\ result.value = None

\* C5 witness: nonzero height padding fails even for a packed descriptor on
\* the device that supports packing.
C5_Witness ==
    /\ result.op = "tensor2memref" /\ result.exc = "AssertionError"
    /\ result.arg.pad_h # 0 /\ result.arg.st_mode = 2
    /\ contexts[result.ctx].device = "BM1684"

Packed(t) == t.st_mode \in {1, 2}

AllSubNets(c) == Concat([n \in DOMAIN c |-> Concat(c[n])])

\* C4: BModel2Bin on a container with K SubNets, each with at least one
\* CmdGroup, leaves exactly 2K files, and every CmdGroup's tiu_cmd and
\* dma_cmd are held, byte for byte, by the two files of its SubNet.
C4_TwoFilesPerSubNet ==
    /\ pc = "exit" /\ args.bmodels = 1 /\ args.format = "bin"
    /\ \A k \in DOMAIN AllSubNets(container) : AllSubNets(container)[k].CmdGroup # << >>
    =>
       /\ Cardinality(DOMAIN files) = 2 * Len(AllSubNets(container))
       /\ \A k \in DOMAIN Walk(container) :
             /\ <<Walk(container)[k].id, "tiu">> \in DOMAIN files
             /\ files[<<Walk(container)[k].id, "tiu">>] = Walk(container)[k].group.tiu_cmd
             /\ <<Walk(container)[k].id, "dma">> \in DOMAIN files
             /\ files[<<Walk(container)[k].id, "dma">>] = Walk(container)[k].group.dma_cmd

\* What the compare printed: the func.func blocks and the hunks in them.
Funcs == {k \in DOMAIN stdout : stdout[k][1] = "func.func"}
HunksIn(lines) == Cardinality({k \in DOMAIN lines : lines[k][1] = "@@"})
HunksOfGraph(g) ==
    IF \E k \in Funcs : stdout[k][2] = tpu_cmd_a[g].idx
    THEN HunksIn(stdout[CHOOSE k \in Funcs : stdout[k][2] = tpu_cmd_a[g].idx][3])
    ELSE 0

Compared == 1..Min(Len(tpu_cmd_a), Len(tpu_cmd_b))
TwoFileExit == pc = "exit" /\ args.bmodels = 2

\* C2: comparing a container with itself prints no hunk for any subgraph
\* pair, reports "the same" and exits 0, for every --format and every --N.
C2_SelfCompareIdentical ==
    TwoFileExit /\ tpu_cmd_a = tpu_cmd_b =>
       /\ exit_code = 0
       /\ \A g \in Compared : HunksOfGraph(g) = 0
       /\ stdout = << <<"same">> >>

\* Two modules of the same shape that differ in one operation of one
\* subgraph, and that subgraph.
Differences(g) ==
    {i \in 1..Len(tpu_cmd_a[g].all) : tpu_cmd_a[g].all[i] # tpu_cmd_b[g].all[i]}
SameStructure ==
    /\ Len(tpu_cmd_a) = Len(tpu_cmd_b)
    /\ \A g \in DOMAIN tpu_cmd_a : Len(tpu_cmd_a[g].all) = Len(tpu_cmd_b[g].all)
OneInstructionChanged ==
    /\ SameStructure
    /\ \E g \in DOMAIN tpu_cmd_a :
          /\ Cardinality(Differences(g)) = 1
          /\ \A h \in DOMAIN tpu_cmd_a \ {g} : Differences(h) = {}
ChangedGraph == CHOOSE g \in DOMAIN tpu_cmd_a : Differences(g) # {}

\* C3 as stated, on the runs in which unified_diff formats its lines
\* (--format mlir or bits, N >= 0): one changed instruction gives exactly
\* one hunk for its subgraph pair, none for the others, and exit status 1.
C3_ExactlyOneHunk ==
    TwoFileExit /\ OneInstructionChanged /\ args.format \in FmtKeys /\ args.N >= 0 =>
       /\ HunksOfGraph(ChangedGraph) = 1
       /\ \A g \in Compared \ {ChangedGraph} : HunksOfGraph(g) = 0
       /\ exit_code = 1

\* C3 amended: one changed instruction gives at least one hunk for its
\* subgraph pair (the matcher may split the replacement into a deletion and
\* an insertion in separate hunks) and, for N >= 0, none for the others, and
\* exit status 1; this with --format mlir or bits.  With --format reg or bin
\* the first pair raises KeyError: no hunk is printed and the status is 1.
C3_AtLeastOneHunk ==
    TwoFileExit /\ OneInstructionChanged =>
       /\ exit_code = 1
       /\ IF args.format \in FmtKeys
          THEN /\ pair = Len(tpu_cmd_a)
               /\ HunksOfGraph(ChangedGraph) >= 1
               /\ args.N >= 0 =>
                     \A g \in Compared \ {ChangedGraph} : HunksOfGraph(g) = 0
          ELSE /\ pair = 0
               /\ Funcs = {}
               /\ stdout = << <<"Traceback", "KeyError">> >>

\* C3 witness: one changed instruction, reported as two hunks, next to an
\* unchanged subgraph.
C3_Witness ==
    /\ TwoFileExit /\ OneInstructionChanged
    /\ Len(tpu_cmd_a) = 2
    /\ HunksOfGraph(ChangedGraph) = 2
    /\ exit_code = 1

\* C9: the compare ends only after min(|A|, |B|) pairs were diffed, with
\* status 0 exactly when no compared pair gave a hunk and status 1
\* otherwise.
C9_AllPairsThenStatus ==
    TwoFileExit =>
       /\ pair = Min(Len(tpu_cmd_a), Len(tpu_cmd_b))
       /\ exit_code \in {0, 1}
       /\ exit_code = 0 <=> \A g \in Compared : PairDiff(g).lines = << >>

\* ------------------------------------------------ C10: patch consistency

\* The hunks of the yielded lines: a hunk runs from its @@ line to the next
\* empty string.
HunkStarts == {k \in DOMAIN yielded : yielded[k][1] = "@@"}
HunkEnd(k) == CHOOSE m \in (k + 1)..Len(yielded) :
                 /\ yielded[m] = <<"">>
                 /\ \A j \in (k + 1)..(m - 1) : yielded[j] # <<"">>
HunkBody(k) == SubSeq(yielded, k + 1, HunkEnd(k) - 1)

IsOldLine(line) == line[1] \in {" ", "-"}
IsNewLine(line) == line[1] \in {" ", "+"}
Texts(lines) == [k \in DOMAIN lines |-> lines[k][2]]
OldSide(k) == Texts(SelectSeq(HunkBody(k), IsOldLine))
NewSide(k) == Texts(SelectSeq(HunkBody(k), IsNewLine))

\* The index range a header names: [lo, hi) counted from 0.
RangeLo(r) == IF Len(r) = 2 /\ r[2] = 0 THEN r[1] ELSE r[1] - 1
RangeHi(r) == RangeLo(r) + (IF Len(r) = 1 THEN 1 ELSE r[2])

FmtAll(format, ops) == [k \in DOMAIN ops |-> Fmt(format, ops[k])]

\* a with every hunk's old range replaced by the hunk's new side, from the
\* hunk that starts at line k on; pos is the index of a reached so far.
RECURSIVE Patched(_, _)
Patched(k, pos) ==
    IF k > Len(yielded) THEN FmtAll(gen.format, Slice(gen.a, pos, Len(gen.a)))
    ELSE IF yielded[k][1] # "@@" THEN Patched(k + 1, pos)
    ELSE FmtAll(gen.format, Slice(gen.a, pos, RangeLo(yielded[k][2])))
         \o NewSide(k)
         \o Patched(HunkEnd(k) + 1, RangeHi(yielded[k][2]))

\* C10: for n >= 0, in every hunk the context and removed lines are the
\* elements of a in the header's old range and the context and added lines
\* those of b in its new range; hunks come in increasing, non-overlapping
\* order; and replacing the old ranges by the new sides turns a into b.
C10_PatchConsistent ==
    gen.n >= 0 /\ gen.state \in {"running", "done"} =>
       /\ \A k \in HunkStarts :
             /\ OldSide(k) = FmtAll(gen.format,
                                Slice(gen.a, RangeLo(yielded[k][2]), RangeHi(yielded[k][2])))
             /\ NewSide(k) = FmtAll(gen.format,
                                Slice(gen.b, RangeLo(yielded[k][3]), RangeHi(yielded[k][3])))
             /\ \A m \in HunkStarts :
                   k < m => /\ RangeHi(yielded[k][2]) <= RangeLo(yielded[m][2])
                            /\ RangeHi(yielded[k][3]) <= RangeLo(yielded[m][3])
       /\ gen.state = "done" => Patched(1, 0) = FmtAll(gen.format, gen.b)

\* C10 witness: a finished diff of two hunks, the second one an insertion
\* after a deletion.
C10_Witness ==
    /\ gen.state = "done" /\ gen.n >= 0
    /\ Cardinality(HunkStarts) = 2
    /\ gen.a # gen.b
====
